---- MODULE Spec2Model ----
(***************************************************************************)
(* Model of pkg/sharings/sharings.go: the Sharing entity, its validation   *)
(* and creation operations, recipient resolution and the JSON:API          *)
(* relationship serializer.                                                *)
(*                                                                         *)
(* `sharing` is the *Sharing the caller holds.  The slice                  *)
(* SRecipients []*SharingRecipient is a sequence of association records:   *)
(* the i-th pointer of the slice points to the i-th record, and no         *)
(* association object is referenced twice.  A write through such a pointer *)
(* (sRec.recipient = ..., sRec.Status = ...) is a write to the record.     *)
(* Every public function is one action: the package is synchronous and     *)
(* single-threaded per call.                                               *)
(***************************************************************************)
EXTENDS Integers, Sequences, FiniteSets, TLC

VARIABLES sharing, recipientsDB, storeDocs, origin, checked, assignedBy, last

vars == <<sharing, recipientsDB, storeDocs, origin, checked, assignedBy, last>>

---------------------------------------------------------------------------
(* Bounds *)

MaxRecipients == 2
MaxDocs == 1
NumLetters == 2

---------------------------------------------------------------------------
(* Program constants *)

RandomLen == 32

OneShotSharing == "one-shot"
MasterSlaveSharing == "master-slave"
MasterMasterSharing == "master-master"
PendingSharingStatus == "pending"
RecipientsDocType == "io.cozy.recipients"

NoErr == "nil"
ErrBadSharingType == "ErrBadSharingType"
ErrMissingState == "ErrMissingState"
ErrMissingScope == "ErrMissingScope"
ErrRecipientDoesNotExist == "ErrRecipientDoesNotExist"
ErrNotFound == "couchdb: not_found"
ErrStore == "couchdb: internal error"
ErrBadScope == "permissions: bad scope"

ValidationErrors == {ErrMissingState, ErrMissingScope, ErrBadSharingType}

Nil == [nil |-> TRUE]

---------------------------------------------------------------------------
(* Input domains *)

Alphabet == <<"a", "b", "c", "d">>

RECURSIVE Rep(_, _)
Rep(c, n) == IF n = 0 THEN "" ELSE c \o Rep(c, n - 1)

Letters == {Alphabet[i] : i \in 1..NumLetters}

SharingTypes == {OneShotSharing, MasterSlaveSharing, MasterMasterSharing, "bad-type"}
States == {"", "st"}
Scopes == {"", "io.cozy.files:GET", "%%"}
Descs == {"d"}
RecipientIds == {"r1", "r2", "r3"}
StoredRecipientIds == {"r1", "r3"}

---------------------------------------------------------------------------
(* Collaborators *)

RandomStrings == {Rep(c, RandomLen) : c \in Letters}

UnmarshalScopeString(scope) ==
    IF scope = "io.cozy.files:GET"
    THEN [set |-> {"io.cozy.files:GET"}, err |-> NoErr]
    ELSE [set |-> {}, err |-> ErrBadScope]

EmptyRecipient == [RID |-> ""]

GetDoc(db, recID, fault) ==
    IF fault THEN [doc |-> EmptyRecipient, err |-> ErrStore]
    ELSE IF recID \in db THEN [doc |-> [RID |-> recID], err |-> NoErr]
    ELSE [doc |-> EmptyRecipient, err |-> ErrNotFound]

IsNotFoundError(err) == err = ErrNotFound

RecipientID(r) == r.RID
RecipientDocType(r) == RecipientsDocType

---------------------------------------------------------------------------
(* Entities *)

NewSharingRecipient(refID) ==
    [Status |-> "", RefRecipient |-> refID, recipient |-> Nil]

---------------------------------------------------------------------------
(* Pure parts of the operations *)

\* Mutant: every error of the store is remapped, not only not-found.
GetRecipient_RemapsAll(db, recID, fault) ==
    LET g == GetDoc(db, recID, fault)
    IN  [doc |-> g.doc,
         err |-> IF g.err # NoErr THEN ErrRecipientDoesNotExist ELSE g.err]

GetRecipient(db, recID, fault) ==
    LET g == GetDoc(db, recID, fault)
    IN  [doc |-> g.doc,
         err |-> IF IsNotFoundError(g.err) THEN ErrRecipientDoesNotExist ELSE g.err]

CheckSharingType(sharingType) ==
    IF sharingType \in {OneShotSharing, MasterSlaveSharing, MasterMasterSharing}
    THEN NoErr
    ELSE ErrBadSharingType

\* The loop of Recipients(): objs is the state of the association objects,
\* out the slice being built (pointers, as indexes into objs), fetches the
\* ids handed to the store so far.
RECURSIVE RecipientsLoop(_, _, _, _, _, _)
RecipientsLoop(objs, i, out, fetches, db, faults) ==
    IF i > Len(objs)
    THEN [objs |-> objs, out |-> out, err |-> NoErr, fetches |-> fetches, done |-> TRUE]
    ELSE LET g == GetRecipient(db, objs[i].RefRecipient, faults[i])
             f == Append(fetches, objs[i].RefRecipient)
         IN  IF g.err # NoErr
             THEN [objs |-> objs, out |-> <<>>, err |-> g.err, fetches |-> f, done |-> FALSE]
             ELSE RecipientsLoop([objs EXCEPT ![i].recipient = g.doc], i + 1,
                                 Append(out, i), f, db, faults)

Recipients(sh, db, faults) ==
    LET r == RecipientsLoop(sh.SRecipients, 1, <<>>, <<>>, db, faults)
    IN  IF r.done
        THEN [sharing |-> [sh EXCEPT !.SRecipients =
                              [k \in 1..Len(r.out) |-> r.objs[r.out[k]]]],
              ret |-> [k \in 1..Len(r.out) |-> r.objs[r.out[k]]],
              err |-> NoErr, fetches |-> r.fetches]
        ELSE [sharing |-> [sh EXCEPT !.SRecipients = r.objs],
              ret |-> Nil, err |-> r.err, fetches |-> r.fetches]

\* Mutant: the request's state is not copied into SharingID.
NewRequestSharing_NoSharingID(desc, state, sharingType, permissions) ==
    [SharingType |-> sharingType,
     SharingID |-> "",
     Permissions |-> permissions,
     Owner |-> FALSE,
     Desc |-> desc,
     SRecipients |-> <<>>]

\* Mutant: the requested Sharing is marked as owned.
NewRequestSharing_Owner(desc, state, sharingType, permissions) ==
    [SharingType |-> sharingType,
     SharingID |-> state,
     Permissions |-> permissions,
     Owner |-> TRUE,
     Desc |-> desc,
     SRecipients |-> <<>>]

\* Lines 120-141 of CreateSharingRequest: the checks, the scope parsing and
\* the construction of the entity, up to the call of Create.
NewRequestSharing(desc, state, sharingType, permissions) ==
    [SharingType |-> sharingType,
     SharingID |-> state,
     Permissions |-> permissions,
     Owner |-> FALSE,
     Desc |-> desc,
     SRecipients |-> <<>>]

\* Mutant: the empty scope is not rejected before parsing.
PrepareSharingRequest_ScopeUnchecked(desc, state, sharingType, scope) ==
    IF state = ""
    THEN [sharing |-> Nil, err |-> ErrMissingState, parseCalls |-> 0]
    ELSE IF CheckSharingType(sharingType) # NoErr
    THEN [sharing |-> Nil, err |-> CheckSharingType(sharingType), parseCalls |-> 0]
    ELSE LET p == UnmarshalScopeString(scope)
         IN  IF p.err # NoErr
             THEN [sharing |-> Nil, err |-> p.err, parseCalls |-> 1]
             ELSE [sharing |-> NewRequestSharing(desc, state, sharingType, p.set),
                   err |-> NoErr, parseCalls |-> 1]

\* Mutant: the empty state is not rejected.
PrepareSharingRequest_StateUnchecked(desc, state, sharingType, scope) ==
    IF CheckSharingType(sharingType) # NoErr
    THEN [sharing |-> Nil, err |-> CheckSharingType(sharingType), parseCalls |-> 0]
    ELSE IF scope = ""
    THEN [sharing |-> Nil, err |-> ErrMissingScope, parseCalls |-> 0]
    ELSE LET p == UnmarshalScopeString(scope)
         IN  IF p.err # NoErr
             THEN [sharing |-> Nil, err |-> p.err, parseCalls |-> 1]
             ELSE [sharing |-> NewRequestSharing(desc, state, sharingType, p.set),
                   err |-> NoErr, parseCalls |-> 1]

PrepareSharingRequest(desc, state, sharingType, scope) ==
    IF state = ""
    THEN [sharing |-> Nil, err |-> ErrMissingState, parseCalls |-> 0]
    ELSE IF CheckSharingType(sharingType) # NoErr
    THEN [sharing |-> Nil, err |-> CheckSharingType(sharingType), parseCalls |-> 0]
    ELSE IF scope = ""
    THEN [sharing |-> Nil, err |-> ErrMissingScope, parseCalls |-> 0]
    ELSE LET p == UnmarshalScopeString(scope)
         IN  IF p.err # NoErr
             THEN [sharing |-> Nil, err |-> p.err, parseCalls |-> 1]
             ELSE [sharing |-> NewRequestSharing(desc, state, sharingType, p.set),
                   err |-> NoErr, parseCalls |-> 1]

\* Mutant: the loop ranges over copies of the associations, the status is
\* lost.
MarkPending_OnCopies(recs) == recs

MarkPending(recs) == [i \in 1..Len(recs) |-> [recs[i] EXCEPT !.Status = PendingSharingStatus]]

\* Mutant: Owner and SharingID are assigned before the recipients are
\* resolved, so also when the resolution fails.
CheckSharingCreationResult_AssignsFirst(sh, db, faults, rnd) ==
    IF CheckSharingType(sh.SharingType) # NoErr
    THEN [sharing |-> sh, err |-> CheckSharingType(sh.SharingType), fetches |-> <<>>]
    ELSE LET r == Recipients([sh EXCEPT !.Owner = TRUE, !.SharingID = rnd], db, faults)
         IN  IF r.err # NoErr
             THEN [sharing |-> r.sharing, err |-> r.err, fetches |-> r.fetches]
             ELSE [sharing |-> [r.sharing EXCEPT !.SRecipients = MarkPending(r.ret)],
                   err |-> NoErr, fetches |-> r.fetches]

\* CheckSharingCreation on the entity sh; rnd is the value utils.RandomString
\* returns if it is reached.
CheckSharingCreationResult(sh, db, faults, rnd) ==
    IF CheckSharingType(sh.SharingType) # NoErr
    THEN [sharing |-> sh, err |-> CheckSharingType(sh.SharingType), fetches |-> <<>>]
    ELSE LET r == Recipients(sh, db, faults)
         IN  IF r.err # NoErr
             THEN [sharing |-> r.sharing, err |-> r.err, fetches |-> r.fetches]
             ELSE [sharing |-> [r.sharing EXCEPT !.SRecipients = MarkPending(r.ret),
                                                 !.Owner = TRUE,
                                                 !.SharingID = rnd],
                   err |-> NoErr, fetches |-> r.fetches]

Panic == [panic |-> TRUE]

AllResolved(sh) == \A i \in 1..Len(sh.SRecipients) : sh.SRecipients[i].recipient # Nil

\* Mutant: data is filled from its last index down.
Relationships_Reversed(sh) ==
    IF ~AllResolved(sh) THEN Panic
    ELSE [recipients |->
            [Data |-> [i \in 1..Len(sh.SRecipients) |->
                         [ID |-> RecipientID(sh.SRecipients[Len(sh.SRecipients) + 1 - i].recipient),
                          Type |-> RecipientDocType(sh.SRecipients[i].recipient)]]]]

\* r.ID() on a nil *Recipient dereferences nil: the call panics.
Relationships(sh) ==
    IF ~AllResolved(sh) THEN Panic
    ELSE [recipients |->
            [Data |-> [i \in 1..Len(sh.SRecipients) |->
                         [ID |-> RecipientID(sh.SRecipients[i].recipient),
                          Type |-> RecipientDocType(sh.SRecipients[i].recipient)]]]]

Included(sh) == [i \in 1..Len(sh.SRecipients) |-> sh.SRecipients[i].recipient]

---------------------------------------------------------------------------
(* State *)

\* sharing      the Sharing the caller holds: the one it built or the one
\*              CreateSharingRequest returned, NoSharing when that is nil
\* recipientsDB the ids of the Recipient documents in the store
\* storeDocs    the Sharing documents inserted in the store
\* origin       how the held Sharing was born: "caller" or "request"
\* checked      a CheckSharingCreation succeeded on the held Sharing
\* assignedBy   the paths that assigned the held Sharing's SharingID
\* last         the last call: its arguments, the Sharing before it, the
\*              store's answers, its result and the calls it made

NoSharing == [absent |-> TRUE]

Live == sharing # NoSharing

NoFaults == [i \in {} |-> FALSE]

NoCall ==
    [op |-> "none", err |-> NoErr, pre |-> Nil, args |-> Nil,
     faults |-> NoFaults, fetches |-> <<>>, parseCalls |-> 0, createCalls |-> 0,
     handed |-> Nil, ret |-> Nil]

\* What is kept of a document inserted in the store: the sharing_id and
\* owner fields of its JSON, and how its Sharing was born and whether a
\* CheckSharingCreation had succeeded on it.  The package never reads a
\* Sharing back from the store.
StoredDoc(sh, org, chk) ==
    [SharingID |-> sh.SharingID, Owner |-> sh.Owner, origin |-> org, checked |-> chk]

Init ==
    /\ sharing = NoSharing
    /\ recipientsDB = StoredRecipientIds
    /\ storeDocs = {}
    /\ origin = "none"
    /\ checked = FALSE
    /\ assignedBy = {}
    /\ last = NoCall

---------------------------------------------------------------------------
(* Actions: one per public function, plus the caller's construction of a   *)
(* Sharing value.                                                          *)

\* The lists of recipient references a caller puts in a Sharing: no
\* recipient twice.
RecipientLists ==
    {ids \in UNION {[1..n -> RecipientIds] : n \in 0..MaxRecipients} :
        \A i, j \in DOMAIN ids : ids[i] = ids[j] => i = j}

FaultsFor(sh) == [1..Len(sh.SRecipients) -> BOOLEAN]

\* A caller builds a Sharing (the web layer decodes it from a request body)
\* before handing it to CheckSharingCreation, Create or Recipients.  Owner,
\* SharingID and the associations' Status and recipient hold Go's zero
\* values: this package is what assigns them.
NewSharing ==
    \E st \in SharingTypes, desc \in Descs, ids \in RecipientLists :
      /\ sharing' = [SharingType |-> st,
                     SharingID |-> "",
                     Permissions |-> {},
                     Owner |-> FALSE,
                     Desc |-> desc,
                     SRecipients |-> [i \in 1..Len(ids) |-> NewSharingRecipient(ids[i])]]
      /\ origin' = "caller"
      /\ checked' = FALSE
      /\ assignedBy' = {}
      /\ last' = [NoCall EXCEPT !.op = "NewSharing"]
      /\ UNCHANGED <<recipientsDB, storeDocs>>

\* couchdb.CreateDoc either inserts the document or fails.
CreateDoc(docs, doc, storeOk) == IF storeOk THEN docs \cup {doc} ELSE docs

CreateCall ==
    \E storeOk \in BOOLEAN :
      /\ Live
      /\ storeOk => Cardinality(storeDocs) < MaxDocs
      /\ storeDocs' = CreateDoc(storeDocs, StoredDoc(sharing, origin, checked), storeOk)
      /\ last' = [NoCall EXCEPT !.op = "Create", !.pre = sharing,
                                !.err = IF storeOk THEN NoErr ELSE ErrStore,
                                !.createCalls = 1, !.handed = sharing]
      /\ UNCHANGED <<sharing, recipientsDB, origin, checked, assignedBy>>

CreateSharingRequestCall ==
    \E desc \in Descs, state \in States, sharingType \in SharingTypes,
       scope \in Scopes, storeOk \in BOOLEAN :
      LET p == PrepareSharingRequest(desc, state, sharingType, scope)
          args == [desc |-> desc, state |-> state, sharingType |-> sharingType,
                   scope |-> scope]
      IN  IF p.err # NoErr
          THEN /\ storeOk
               /\ sharing' = NoSharing
               /\ origin' = "none"
               /\ checked' = FALSE
               /\ assignedBy' = {}
               /\ last' = [NoCall EXCEPT !.op = "CreateSharingRequest", !.args = args,
                                         !.err = p.err, !.parseCalls = p.parseCalls]
               /\ UNCHANGED <<recipientsDB, storeDocs>>
          ELSE /\ storeOk => Cardinality(storeDocs) < MaxDocs
               /\ sharing' = p.sharing
               /\ origin' = "request"
               /\ checked' = FALSE
               /\ assignedBy' = {"request"}
               /\ storeDocs' = CreateDoc(storeDocs, StoredDoc(p.sharing, "request", FALSE),
                                         storeOk)
               /\ last' = [NoCall EXCEPT !.op = "CreateSharingRequest",
                                         !.args = args,
                                         !.err = IF storeOk THEN NoErr ELSE ErrStore,
                                         !.parseCalls = p.parseCalls,
                                         !.createCalls = 1, !.handed = p.sharing,
                                         !.ret = p.sharing]
               /\ UNCHANGED recipientsDB

RecipientsCall ==
    /\ Live
    /\ \E faults \in FaultsFor(sharing) :
         LET r == Recipients(sharing, recipientsDB, faults)
         IN  /\ sharing' = r.sharing
             /\ last' = [NoCall EXCEPT !.op = "Recipients",
                                       !.pre = sharing, !.err = r.err,
                                       !.faults = faults, !.fetches = r.fetches,
                                       !.ret = r.ret]
    /\ UNCHANGED <<recipientsDB, storeDocs, origin, checked, assignedBy>>

CheckSharingCreationCall ==
    /\ Live
    /\ \E faults \in FaultsFor(sharing), rnd \in RandomStrings :
         LET r == CheckSharingCreationResult(sharing, recipientsDB, faults, rnd)
         IN  /\ sharing' = r.sharing
             /\ checked' = (checked \/ r.err = NoErr)
             /\ assignedBy' = IF r.err = NoErr THEN assignedBy \cup {"check"}
                              ELSE assignedBy
             /\ last' = [NoCall EXCEPT !.op = "CheckSharingCreation",
                                       !.pre = sharing, !.err = r.err,
                                       !.faults = faults, !.fetches = r.fetches]
    /\ UNCHANGED <<recipientsDB, storeDocs, origin>>

RelationshipsCall ==
    /\ Live
    /\ last' = [NoCall EXCEPT !.op = "Relationships",
                              !.pre = sharing, !.ret = Relationships(sharing)]
    /\ UNCHANGED <<sharing, recipientsDB, storeDocs, origin, checked, assignedBy>>

IncludedCall ==
    /\ Live
    /\ last' = [NoCall EXCEPT !.op = "Included",
                              !.pre = sharing, !.ret = Included(sharing)]
    /\ UNCHANGED <<sharing, recipientsDB, storeDocs, origin, checked, assignedBy>>

Next ==
    \/ NewSharing
    \/ CreateCall
    \/ CreateSharingRequestCall
    \/ RecipientsCall
    \/ CheckSharingCreationCall
    \/ RelationshipsCall
    \/ IncludedCall

Spec == Init /\ [][Next]_vars

---------------------------------------------------------------------------
(* Properties *)

Enumerated == {"one-shot", "master-slave", "master-master"}

IsRequest == last.op = "CreateSharingRequest"
IsCheck == last.op = "CheckSharingCreation"
IsRecipients == last.op = "Recipients"

\* C1: a CreateSharingRequest whose state is empty, whose scope is empty or
\* whose sharingType is not enumerated fails with a validation error, calls
\* neither the scope parser nor createDocument, and returns no Sharing.
C1_ValidationRejects ==
    (IsRequest /\ (\/ last.args.state = ""
                   \/ last.args.scope = ""
                   \/ last.args.sharingType \notin Enumerated))
    => /\ last.err \in ValidationErrors
       /\ last.parseCalls = 0
       /\ last.createCalls = 0
       /\ last.handed = Nil
       /\ last.ret = Nil
       /\ sharing = NoSharing

C1_Witness ==
    /\ IsRequest
    /\ last.args.state = ""
    /\ last.args.sharingType \in Enumerated
    /\ UnmarshalScopeString(last.args.scope).err = NoErr
    /\ last.err = ErrMissingState

\* C2: a CreateSharingRequest with a non-empty state, a non-empty scope that
\* parses and an enumerated sharingType returns a Sharing with Owner false
\* and SharingID equal to the state, hands exactly that Sharing to
\* createDocument exactly once, and returns it with the store's result.
C2_RequestCreates ==
    (IsRequest /\ last.args.state # "" /\ last.args.scope # ""
               /\ UnmarshalScopeString(last.args.scope).err = NoErr
               /\ last.args.sharingType \in Enumerated)
    => /\ last.ret # Nil
       /\ last.ret.Owner = FALSE
       /\ last.ret.SharingID = last.args.state
       /\ last.ret.SharingType = last.args.sharingType
       /\ last.createCalls = 1
       /\ last.handed = last.ret
       /\ sharing = last.ret
       /\ last.err \in {NoErr, ErrStore}

C2_Witness ==
    /\ IsRequest
    /\ last.ret # Nil
    /\ last.err = ErrStore
    /\ last.createCalls = 1

\* C3 (as claimed): a CheckSharingCreation that returns an error leaves every
\* field of the Sharing and of its recipient associations as before the call.
C3_FailsAtomically ==
    (IsCheck /\ last.err # NoErr) => sharing = last.pre

\* C5 (as claimed): a Recipients() that fails with the recipient-does-not-
\* exist error leaves the Sharing's recipients as before the call, the
\* associations fetched before the failing one included.
C5_RecipientsUnchangedOnFailure ==
    (IsRecipients /\ last.err = ErrRecipientDoesNotExist)
    => sharing.SRecipients = last.pre.SRecipients

RefIds(sh) == [i \in 1..Len(sh.SRecipients) |-> sh.SRecipients[i].RefRecipient]

\* The store answers the fetch for association i of the call with an error.
FetchFails(i) == last.faults[i] \/ RefIds(last.pre)[i] \notin recipientsDB

CheckedOK ==
    /\ sharing.Owner = TRUE
    /\ sharing.SharingID # ""
    /\ Len(sharing.SharingID) = 32
    /\ Len(sharing.SRecipients) = Len(last.pre.SRecipients)
    /\ \A i \in 1..Len(sharing.SRecipients) : sharing.SRecipients[i].Status = "pending"
    /\ RefIds(sharing) = RefIds(last.pre)
    /\ last.createCalls = 0
    /\ last.handed = Nil

\* C4 (as claimed): a CheckSharingCreation on a Sharing with a valid type
\* and recipients that all resolve returns no error, leaves Owner true, a
\* 32-character SharingID different from the one held before and every
\* association pending, and calls createDocument not at all.
C4_FreshSharingID ==
    (IsCheck /\ last.pre.SharingType \in Enumerated
             /\ \A i \in 1..Len(last.pre.SRecipients) : ~FetchFails(i))
    => /\ last.err = NoErr
       /\ CheckedOK
       /\ sharing.SharingID # last.pre.SharingID

\* C4 (amended): the same, but the new SharingID is whatever the generator
\* returned; it is not compared with the value held before.
C4_CheckedSharing ==
    (IsCheck /\ last.pre.SharingType \in Enumerated
             /\ \A i \in 1..Len(last.pre.SRecipients) : ~FetchFails(i))
    => /\ last.err = NoErr
       /\ CheckedOK

C4_Witness ==
    /\ IsCheck
    /\ last.err = NoErr
    /\ Len(last.pre.SRecipients) = 2
    /\ last.pre.SharingID # ""
    /\ sharing.SharingID # last.pre.SharingID

\* C6 (as claimed): every Sharing document inserted in the store has a
\* non-empty sharing_id.
C6_StoredSharingIDNonEmpty ==
    \A d \in storeDocs : d.SharingID # ""

\* C6 (amended): every document inserted by CreateSharingRequest, or by
\* Create for a Sharing that CreateSharingRequest returned or on which a
\* CheckSharingCreation had succeeded, has a non-empty sharing_id.
C6_StoredAfterRequestOrCheck ==
    \A d \in storeDocs : (d.origin = "request" \/ d.checked) => d.SharingID # ""

C6_Witness ==
    \E d \in storeDocs : d.origin = "caller" /\ d.checked /\ d.SharingID # ""

\* C7 (as claimed): Owner is true iff a CheckSharingCreation succeeded on
\* the Sharing, and never on a Sharing that CreateSharingRequest returned.
C7_OwnerOnlyOnCheckPath ==
    Live => /\ (sharing.Owner = TRUE <=> checked)
            /\ (origin = "request" => sharing.Owner = FALSE)

\* C7 (amended): Owner is true iff a CheckSharingCreation succeeded on the
\* Sharing; CreateSharingRequest returns Owner false.
C7_OwnerIffChecked ==
    Live => /\ (sharing.Owner = TRUE <=> checked)
            /\ (IsRequest => sharing.Owner = FALSE)

C7_Witness ==
    /\ Live
    /\ origin = "request"
    /\ checked
    /\ sharing.Owner = TRUE

\* C8 (as claimed): the SharingID of a Sharing is assigned by at most one of
\* the two paths, the state of CreateSharingRequest or the generator of
\* CheckSharingCreation.
C8_OneAssignmentPath ==
    Live => Cardinality(assignedBy) <= 1

\* C8 (amended): the SharingID of a Sharing is written only by
\* CreateSharingRequest, with the state, when it builds the Sharing, and by
\* a successful CheckSharingCreation, with the generator's 32 characters; no
\* other call and no failing call changes it.
C8_AssignedOnlyByTheTwoPaths ==
    [][/\ (last'.op = "CreateSharingRequest" /\ sharing' # NoSharing)
            => sharing'.SharingID = last'.args.state
       /\ (Live /\ last'.op \notin {"CreateSharingRequest", "NewSharing"}
                /\ sharing'.SharingID # sharing.SharingID)
            => /\ last'.op = "CheckSharingCreation"
               /\ last'.err = NoErr
               /\ Len(sharing'.SharingID) = 32]_vars

C8_Witness ==
    /\ Live
    /\ assignedBy = {"request", "check"}
    /\ Len(sharing.SharingID) = 32

\* C9: for a Sharing whose associations are all resolved, Relationships()
\* returns the single group "recipients" with one identifier per
\* association, the i-th being the {id, type} of the i-th entity of
\* Included(), which is the resolved Recipient of the i-th association.
C9_RelationshipsFollowIncluded ==
    (last.op = "Relationships" /\ AllResolved(last.pre))
    => /\ DOMAIN last.ret = {"recipients"}
       /\ Len(last.ret.recipients.Data) = Len(last.pre.SRecipients)
       /\ Len(Included(last.pre)) = Len(last.pre.SRecipients)
       /\ \A i \in 1..Len(last.pre.SRecipients) :
            /\ last.ret.recipients.Data[i].ID = Included(last.pre)[i].RID
            /\ last.ret.recipients.Data[i].Type = "io.cozy.recipients"
            /\ Included(last.pre)[i] = last.pre.SRecipients[i].recipient

C9_Witness ==
    /\ last.op = "Relationships"
    /\ AllResolved(last.pre)
    /\ Len(last.pre.SRecipients) = 2
    /\ last.ret.recipients.Data[1].ID # last.ret.recipients.Data[2].ID

FirstFailure == CHOOSE k \in 1..Len(last.pre.SRecipients) :
                    FetchFails(k) /\ \A j \in 1..(k - 1) : ~FetchFails(j)

\* C10: Recipients() fetches in list order, one fetch per association; when
\* the fetch for the k-th association is the first to fail, the fetches made
\* are those of the first k associations and no more, and the error is the
\* recipient-does-not-exist error if the store said not found, the store's
\* error otherwise.
C10_FetchesInOrderFailFast ==
    IsRecipients
    => IF \E k \in 1..Len(last.pre.SRecipients) : FetchFails(k)
       THEN /\ last.fetches = SubSeq(RefIds(last.pre), 1, FirstFailure)
            /\ last.err = IF last.faults[FirstFailure] THEN ErrStore
                          ELSE ErrRecipientDoesNotExist
            /\ last.ret = Nil
       ELSE /\ last.fetches = RefIds(last.pre)
            /\ last.err = NoErr

C10_Witness ==
    /\ IsRecipients
    /\ Len(last.pre.SRecipients) = 2
    /\ Len(last.fetches) = 2
    /\ last.err = ErrStore

====
